---- MODULE Spec2Model ----
(***************************************************************************)
(* The validation pipeline of merge_results_for_comparison.py: main() runs *)
(* load_claude_json_files, load_manual_coding, merge_datasets, the CSV     *)
(* save, calculate_agreement_statistics, analyze_discrepancies,            *)
(* create_visualizations and generate_summary_report, inside one           *)
(* try/except that ends the run on the first exception that escapes.       *)
(* coded_json_analyzer.py reads the same folder in a run of its own.       *)
(* 2_run_llm_coding.py, upstream, writes the files of that folder.         *)
(*                                                                         *)
(* Spec is the validation run without pingouin, SpecIcc the same run with  *)
(* or without it, SpecReport the interpretation of a results dict on its   *)
(* own, SpecCoding the coding script.                                      *)
(*                                                                         *)
(* Strings that the code takes apart (file stems, identifiers) are         *)
(* sequences of one-character strings.  A table cell is a record           *)
(* [isnan, val]; NaN is the cell pandas treats as missing.                 *)
(***************************************************************************)
EXTENDS Integers, Sequences, FiniteSets, TLC

VARIABLES
    json_folder,     \* the *_coded.json files, in the order glob yields them
    manual_xlsx,     \* the rows of the manual coding sheet, in sheet order
    pc,              \* position of main()
    claude_df,       \* table returned by load_claude_json_files
    manual_df,       \* table returned by load_manual_coding
    merged_df,       \* table returned by merge_datasets / analyze_discrepancies
    merged_csv,      \* rows written to merged_comparison.csv
    results,         \* dict returned by calculate_agreement_statistics
    report,          \* content of validation_report.txt
    load_errors,     \* "Error loading <file>" lines, in print order
    manual_only,     \* identifiers named in the "manual but not Claude" warning
    claude_only,     \* identifiers named in the "Claude but not manual" warning
    no_valid_data,   \* metrics printed as "<metric>: No valid data"
    flagged,         \* discrepancy lines printed by analyze_discrepancies
    plots,           \* metrics whose comparison plot was saved
    threshold_arg,   \* the threshold argument analyze_discrepancies was called with
    all_metrics,     \* list returned by coded_json_analyzer's collect_all_metrics
    fatal,           \* exception printed by main's except clause, or "none"
    pingouin_available, \* PINGOUIN_AVAILABLE, set when the module is imported
    tiers,           \* interpretation line printed under each metric's statistics
    icc_failed,      \* metrics printed as "<metric>: Could not calculate ICC"
    \* 2_run_llm_coding.py
    transcripts,     \* participant_id of each prepared transcript, in file order
    output_dir,      \* the <participant_id>_coded.json files in llm_outputs
    run,             \* number of runs of the script started so far
    coding_pc,       \* position of the script's main()
    loop_i,          \* index of the transcript the coding loop is at
    coding_results,  \* main's results list: transcripts coded in this run
    errors,          \* main's errors list
    skipped,         \* main's skipped list
    total_input_tokens,
    total_output_tokens,
    api_calls,       \* the calls of client.messages.create made so far
    summary          \* content of _coding_summary.json

validation_vars ==
    <<json_folder, manual_xlsx, pc, claude_df, manual_df, merged_df,
      merged_csv, results, report, load_errors, manual_only, claude_only,
      no_valid_data, flagged, plots, threshold_arg, all_metrics, fatal,
      pingouin_available, tiers, icc_failed>>

coding_vars ==
    <<transcripts, output_dir, run, coding_pc, loop_i, coding_results, errors,
      skipped, total_input_tokens, total_output_tokens, api_calls, summary>>

vars == <<validation_vars, coding_vars>>

(***************************************************************************)
(* Bounds of the model.                                                    *)
(***************************************************************************)
\* Files in the folder and rows in the manual sheet, together.
MaxRecords == 4

\* Prepared transcripts handed to the coding script.
MaxTranscripts == 3

\* Runs of the coding script over the same output folder.
MaxRuns == 2

(***************************************************************************)
(* Cells and strings.                                                      *)
(***************************************************************************)
NaN == [isnan |-> TRUE, val |-> 0]
Num(v) == [isnan |-> FALSE, val |-> v]
IsNaN(c) == c.isnan

Abs(x) == IF x < 0 THEN -x ELSE x

Range(s) == {s[i] : i \in 1..Len(s)}

RECURSIVE SeqSum(_)
SeqSum(s) == IF s = <<>> THEN 0 ELSE Head(s) + SeqSum(Tail(s))

RECURSIVE Flatten(_)
Flatten(ss) == IF ss = <<>> THEN <<>> ELSE Head(ss) \o Flatten(Tail(ss))

\* The metrics list of calculate_agreement_statistics, analyze_discrepancies
\* and create_visualizations, in iteration order.
metrics == <<"Fluency", "Flexibility", "Elaboration">>
Metrics == Range(metrics)

\* creativity_metrics key read for each <metric>_Claude column.
JsonKey(metric) ==
    CASE metric = "Fluency" -> "fluency"
      [] metric = "Flexibility" -> "flexibility"
      [] metric = "Elaboration" -> "elaboration_total"
JsonKeys == {JsonKey(m) : m \in Metrics}

(***************************************************************************)
(* JSON values.  A field of the top-level object is absent, a string or a  *)
(* number; a creativity_metrics entry is absent or a number.               *)
(***************************************************************************)
FieldAbsent == [t |-> "absent", s |-> <<>>, n |-> 0]
StrField(str) == [t |-> "str", s |-> str, n |-> 0]
NumField(k) == [t |-> "num", s |-> <<>>, n |-> k]

KeyAbsent == [has |-> FALSE, val |-> 0]
KeyNum(v) == [has |-> TRUE, val |-> v]

Malformed == [kind |-> "malformed"]
Obj(pid, PID, hasCm, cm) ==
    [kind |-> "object", participant_id |-> pid, ParticipantID |-> PID,
     has_creativity_metrics |-> hasCm, creativity_metrics |-> cm]

\* Python truthiness of data.get(key): None, "" and 0 are falsy.
Truthy(f) ==
    CASE f.t = "absent" -> FALSE
      [] f.t = "str" -> f.s # <<>>
      [] f.t = "num" -> f.n # 0

\* str.split('_')[0]: the text before the first underscore.
RECURSIVE SplitFirst(_)
SplitFirst(s) ==
    IF s = <<>> \/ Head(s) = "_" THEN <<>>
    ELSE <<Head(s)>> \o SplitFirst(Tail(s))

(***************************************************************************)
(* Inputs.                                                                 *)
(***************************************************************************)
Coded == <<"_", "c", "o", "d", "e", "d">>
Stems == { <<"A">> \o Coded, <<"A", "_", "x">> \o Coded, <<"B">> \o Coded }

CmFull == [k \in JsonKeys |-> KeyNum(1)]
CmPartial == [k \in JsonKeys |->
                IF k = "elaboration_total" THEN KeyAbsent ELSE KeyNum(3)]
CmEmpty == [k \in JsonKeys |-> KeyAbsent]

JsonContents ==
    { Malformed,
      Obj(NumField(7), FieldAbsent, FALSE, CmEmpty),
      Obj(FieldAbsent, FieldAbsent, TRUE, CmFull),
      Obj(FieldAbsent, FieldAbsent, TRUE, CmPartial),
      Obj(FieldAbsent, FieldAbsent, FALSE, CmEmpty),
      Obj(StrField(<<>>), StrField(<<"B", "_", "2">>), TRUE, CmFull) }

JsonFiles == [stem : Stems, json : JsonContents]

ManualIds == { <<"A">>, <<"B">> }
ManualScores ==
    { [m \in Metrics |-> Num(3)],
      [m \in Metrics |-> IF m = "Elaboration" THEN NaN ELSE Num(1)] }
ManualRows ==
    [ParticipantID : ManualIds, Manual : ManualScores]
        \cup {[ParticipantID |-> <<"A", "_", "1">>,
                 Manual |-> [m \in Metrics |-> Num(3)]]}

SeqsUpTo(S, n) == UNION { [1..k -> S] : k \in 0..n }

Min(a, b) == IF a < b THEN a ELSE b

\* A folder holds each file name once.
Folders ==
    { f \in SeqsUpTo(JsonFiles, Min(MaxRecords, Cardinality(Stems))) :
        \A i, j \in 1..Len(f) : i # j => f[i].stem # f[j].stem }

\* The sheets that go with a folder of n files.
Sheets(n) == SeqsUpTo(ManualRows, MaxRecords - n)

(***************************************************************************)
(* load_claude_json_files.                                                 *)
(***************************************************************************)
\* data.get('participant_id') or data.get('ParticipantID') or json_file.stem
IdField(file) ==
    IF Truthy(file.json.participant_id) THEN file.json.participant_id
    ELSE IF Truthy(file.json.ParticipantID) THEN file.json.ParticipantID
    ELSE StrField(file.stem)

\* json.load succeeds on the file.
Parses(file) == file.json.kind # "malformed"

\* The body of the try block raises: json.load fails, or the identifier is not
\* a string and has no split method.
LoadRaises(file) == ~Parses(file) \/ IdField(file).t # "str"

\* data.get('creativity_metrics', {})
CreativityMetrics(file) ==
    IF file.json.has_creativity_metrics THEN file.json.creativity_metrics
    ELSE [k \in JsonKeys |-> KeyAbsent]

\* creativity_metrics.get(key, np.nan)
GetMetricZeroDefault(cm, key) == IF cm[key].has THEN Num(cm[key].val) ELSE Num(0)
GetMetric(cm, key) == IF cm[key].has THEN Num(cm[key].val) ELSE NaN

\* The record appended for a file whose try block completes.
ClaudeRecord(file) ==
    [ParticipantID |-> SplitFirst(IdField(file).s),
     Claude |-> [m \in Metrics |-> GetMetric(CreativityMetrics(file), JsonKey(m))]]

\* The for loop: the except clause prints the error and continues.
RECURSIVE LoadRecordsStopAtError(_)
LoadRecordsStopAtError(files) ==
    IF files = <<>> THEN <<>>
    ELSE IF LoadRaises(Head(files)) THEN <<>>
    ELSE <<ClaudeRecord(Head(files))>> \o LoadRecordsStopAtError(Tail(files))
RECURSIVE LoadRecords(_)
LoadRecords(files) ==
    IF files = <<>> THEN <<>>
    ELSE IF LoadRaises(Head(files)) THEN LoadRecords(Tail(files))
    ELSE <<ClaudeRecord(Head(files))>> \o LoadRecords(Tail(files))

RECURSIVE LoadErrors(_)
LoadErrors(files) ==
    IF files = <<>> THEN <<>>
    ELSE IF LoadRaises(Head(files)) THEN <<Head(files).stem>> \o LoadErrors(Tail(files))
    ELSE LoadErrors(Tail(files))

\* main step 1.  No matching file raises FileNotFoundError, which main catches.
LoadClaudeJsonFiles ==
    /\ pc = "start"
    /\ IF json_folder = <<>>
       THEN /\ pc' = "aborted"
            /\ fatal' = "FileNotFoundError"
            /\ UNCHANGED <<claude_df, load_errors>>
       ELSE /\ claude_df' = LoadRecords(json_folder)
            /\ load_errors' = LoadErrors(json_folder)
            /\ pc' = "claude_loaded"
            /\ UNCHANGED fatal
    /\ UNCHANGED <<coding_vars, pingouin_available, tiers, icc_failed, json_folder, manual_xlsx, manual_df, merged_df, merged_csv,
                   results, report, manual_only, claude_only, no_valid_data,
                   flagged, plots, threshold_arg, all_metrics>>

(***************************************************************************)
(* load_manual_coding: the score columns get the _Manual suffix; the       *)
(* identifier column is kept as read.                                      *)
(***************************************************************************)
LoadManualCoding ==
    /\ pc = "claude_loaded"
    /\ manual_df' = manual_xlsx
    /\ pc' = "manual_loaded"
    /\ UNCHANGED <<coding_vars, pingouin_available, tiers, icc_failed, json_folder, manual_xlsx, claude_df, merged_df, merged_csv,
                   results, report, load_errors, manual_only, claude_only,
                   no_valid_data, flagged, plots, threshold_arg, all_metrics, fatal>>

(***************************************************************************)
(* merge_datasets.                                                         *)
(***************************************************************************)
IdSet(df) == {df[i].ParticipantID : i \in 1..Len(df)}

\* manual_df.merge(claude_df, on='ParticipantID', how='inner'): every pair of
\* a manual row and a Claude row with equal keys, in the order of the manual
\* rows, then of the Claude rows.
MatchesOfFirstOnly(mrow, cdf) ==
    LET Same(c) == c.ParticipantID = mrow.ParticipantID
        hits == SelectSeq(cdf, Same)
    IN  [j \in 1..Min(1, Len(hits)) |->
            [ParticipantID |-> mrow.ParticipantID,
             Manual |-> mrow.Manual,
             Claude |-> hits[j].Claude]]
MatchesOf(mrow, cdf) ==
    LET Same(c) == c.ParticipantID = mrow.ParticipantID
        hits == SelectSeq(cdf, Same)
    IN  [j \in 1..Len(hits) |->
            [ParticipantID |-> mrow.ParticipantID,
             Manual |-> mrow.Manual,
             Claude |-> hits[j].Claude]]

InnerMerge(mdf, cdf) == Flatten([i \in 1..Len(mdf) |-> MatchesOf(mdf[i], cdf)])

ManualOnlySwapped(mdf, cdf) == IdSet(cdf) \ IdSet(mdf)
ManualOnly(mdf, cdf) == IdSet(mdf) \ IdSet(cdf)
ClaudeOnly(mdf, cdf) == IdSet(cdf) \ IdSet(mdf)

\* main step 3.  pd.DataFrame([]) has no ParticipantID column, so the merge
\* raises KeyError when no file was loaded.
MergeDatasets ==
    /\ pc = "manual_loaded"
    /\ IF claude_df = <<>>
       THEN /\ pc' = "aborted"
            /\ fatal' = "KeyError"
            /\ UNCHANGED <<merged_df, manual_only, claude_only>>
       ELSE /\ merged_df' = InnerMerge(manual_df, claude_df)
            /\ manual_only' = ManualOnly(manual_df, claude_df)
            /\ claude_only' = ClaudeOnly(manual_df, claude_df)
            /\ pc' = "merged"
            /\ UNCHANGED fatal
    /\ UNCHANGED <<coding_vars, pingouin_available, tiers, icc_failed, json_folder, manual_xlsx, claude_df, manual_df, merged_csv,
                   results, report, load_errors, no_valid_data, flagged, plots, threshold_arg, all_metrics>>

\* merged_df.to_csv(merged_output, index=False)
SaveMergedCsv ==
    /\ pc = "merged"
    /\ merged_csv' = merged_df
    /\ pc' = "csv_saved"
    /\ UNCHANGED <<coding_vars, pingouin_available, tiers, icc_failed, json_folder, manual_xlsx, claude_df, manual_df, merged_df,
                   results, report, load_errors, manual_only, claude_only,
                   no_valid_data, flagged, plots, threshold_arg, all_metrics, fatal>>

(***************************************************************************)
(* calculate_agreement_statistics.                                         *)
(***************************************************************************)
\* merged_df[[manual_col, claude_col]].dropna()
ValidDataAnyMetric(df, metric) ==
    LET Complete(r) == \A m \in Metrics : ~IsNaN(r.Manual[m]) /\ ~IsNaN(r.Claude[m])
    IN  SelectSeq(df, Complete)
ValidData(df, metric) ==
    LET Both(r) == ~IsNaN(r.Manual[metric]) /\ ~IsNaN(r.Claude[metric])
    IN  SelectSeq(df, Both)

ManualVals(valid, metric) == [i \in 1..Len(valid) |-> valid[i].Manual[metric].val]
ClaudeVals(valid, metric) == [i \in 1..Len(valid) |-> valid[i].Claude[metric].val]

Dot(x, y) == SeqSum([i \in 1..Len(x) |-> x[i] * y[i]])

\* n times the centred cross product of x and y.
Cross(x, y) == Len(x) * Dot(x, y) - SeqSum(x) * SeqSum(y)

\* floor(100 * r) for r = sxy / sqrt(sxx * syy), sxx and syy positive.
CorrPercent(sxy, sxx, syy) ==
    LET Below(k) == k * k * sxx * syy <= 10000 * sxy * sxy
        up == CHOOSE k \in 0..100 : Below(k) /\ (k = 100 \/ ~Below(k + 1))
        Above(k) == k * k * sxx * syy >= 10000 * sxy * sxy
        down == CHOOSE k \in 0..100 : Above(k) /\ (k = 0 \/ ~Above(k - 1))
    IN  IF sxy >= 0 THEN up ELSE -down

\* scipy.stats.pearsonr on two samples of length >= 2: nan when either input
\* is constant.  The value is kept in hundredths, rounded down.
Pearsonr(x, y) ==
    IF Cross(x, x) = 0 \/ Cross(y, y) = 0 THEN NaN
    ELSE Num(CorrPercent(Cross(x, y), Cross(x, x), Cross(y, y)))

\* The entry results[metric]; mae = abs_error_sum / n and
\* mean_difference = difference_sum / n.  The entry is created without an
\* 'icc' key.
MetricStats(valid, metric) ==
    LET x == ManualVals(valid, metric)
        y == ClaudeVals(valid, metric)
    IN  [correlation |-> Pearsonr(x, y),
         abs_error_sum |-> SeqSum([i \in 1..Len(x) |-> Abs(x[i] - y[i])]),
         difference_sum |-> SeqSum([i \in 1..Len(x) |-> x[i] - y[i]]),
         n |-> Len(valid),
         has_icc |-> FALSE]

\* corr >= pct / 100 on a correlation in hundredths; a comparison with nan is
\* False.
CorrAtLeast(corr, pct) == ~IsNaN(corr) /\ corr.val >= pct

\* The interpretation printed under a metric's statistics: the if / elif
\* chain ends in the else branch for every correlation that passes no test.
InterpretationStrict(corr) ==
    IF ~IsNaN(corr) /\ corr.val > 90 THEN "Excellent"
    ELSE IF ~IsNaN(corr) /\ corr.val > 80 THEN "Good"
    ELSE IF ~IsNaN(corr) /\ corr.val > 70 THEN "Acceptable"
    ELSE "Poor"
Interpretation(corr) ==
    IF CorrAtLeast(corr, 90) THEN "Excellent"
    ELSE IF CorrAtLeast(corr, 80) THEN "Good"
    ELSE IF CorrAtLeast(corr, 70) THEN "Acceptable"
    ELSE "Poor"

\* The interpretation lines, one per entry of res.
Interpretations(res) == [m \in DOMAIN res |-> Interpretation(res[m].correlation)]

\* pearsonr raises ValueError on a sample of length 1; the loop stops at the
\* first such metric.
PearsonrRaises(df, metric) == Len(ValidData(df, metric)) = 1

FirstRaising(df) ==
    IF \E i \in 1..Len(metrics) : PearsonrRaises(df, metrics[i])
    THEN CHOOSE i \in 1..Len(metrics) :
            /\ PearsonrRaises(df, metrics[i])
            /\ \A j \in 1..(i - 1) : ~PearsonrRaises(df, metrics[j])
    ELSE Len(metrics) + 1

\* Metrics the loop reaches before it returns or raises.
Reached(df) == {metrics[i] : i \in 1..(FirstRaising(df) - 1)}

NoValidData(df) == {m \in Reached(df) : Len(ValidData(df, m)) = 0}

AgreementResults(df) ==
    [m \in {k \in Metrics : Len(ValidData(df, k)) > 0} |->
        MetricStats(ValidData(df, m), m)]

\* The entries the first loop has made when it returns or raises.
ResultsReached(df) ==
    [m \in {k \in Reached(df) : Len(ValidData(df, k)) > 0} |->
        MetricStats(ValidData(df, m), m)]

\* The ICC loop, entered when PINGOUIN_AVAILABLE: ok holds the metrics for
\* which calculate_icc returns.  results[metric]['icc'] = icc_result raises
\* KeyError for a metric without an entry; the except clause prints every
\* exception of the try block and the loop goes on.
WithIccDropFailed(res, ok) ==
    [m \in DOMAIN res \cap ok |-> [res[m] EXCEPT !.has_icc = TRUE]]
WithIcc(res, ok) ==
    [m \in DOMAIN res |-> [res[m] EXCEPT !.has_icc = (m \in ok)]]

IccFailed(res, ok) == Metrics \ (ok \cap DOMAIN res)

\* main step 4.
CalculateAgreementStatistics ==
    /\ pc = "csv_saved"
    /\ no_valid_data' = NoValidData(merged_df)
    /\ tiers' = Interpretations(ResultsReached(merged_df))
    /\ IF FirstRaising(merged_df) <= Len(metrics)
       THEN /\ pc' = "aborted"
            /\ fatal' = "ValueError"
            /\ UNCHANGED <<results, icc_failed>>
       ELSE /\ pc' = "stats_done"
            /\ UNCHANGED fatal
            /\ IF pingouin_available
               THEN \E ok \in SUBSET Metrics :
                       /\ results' = WithIcc(AgreementResults(merged_df), ok)
                       /\ icc_failed' = IccFailed(AgreementResults(merged_df), ok)
               ELSE /\ results' = AgreementResults(merged_df)
                    /\ icc_failed' = {}
    /\ UNCHANGED <<coding_vars, pingouin_available, json_folder, manual_xlsx, claude_df,
                   manual_df, merged_df, merged_csv, report, load_errors,
                   manual_only, claude_only, flagged, plots, threshold_arg,
                   all_metrics>>

(***************************************************************************)
(* analyze_discrepancies.                                                  *)
(***************************************************************************)
\* def analyze_discrepancies(merged_df, threshold=2)
ThresholdDefault == 2
NoThreshold == [given |-> FALSE, val |-> 0]
GivenThreshold(t) == [given |-> TRUE, val |-> t]
ThresholdArgs == {NoThreshold, GivenThreshold(1), GivenThreshold(3)}

EffectiveThreshold(arg) == IF arg.given THEN arg.val ELSE ThresholdDefault

\* merged_df[manual_col] - merged_df[claude_col]: NaN when either is NaN.
DiffCell(row, metric) ==
    IF IsNaN(row.Manual[metric]) \/ IsNaN(row.Claude[metric]) THEN NaN
    ELSE Num(row.Manual[metric].val - row.Claude[metric].val)

\* abs(merged_df[f'{metric}_Diff'])
AbsCell(c) == IF IsNaN(c) THEN NaN ELSE Num(Abs(c.val))

\* merged_df[f'{metric}_AbsDiff'] >= threshold: a comparison with NaN is False.
AtLeastStrict(c, t) == ~IsNaN(c) /\ c.val > t
AtLeast(c, t) == ~IsNaN(c) /\ c.val >= t

\* The table with the <metric>_Diff and <metric>_AbsDiff columns assigned.
AddDiffColumnsDropMissing(df) ==
    LET Complete(r) == \A m \in Metrics : ~IsNaN(r.Manual[m]) /\ ~IsNaN(r.Claude[m])
        kept == SelectSeq(df, Complete)
    IN  [i \in 1..Len(kept) |->
            [ParticipantID |-> kept[i].ParticipantID,
             Manual |-> kept[i].Manual,
             Claude |-> kept[i].Claude,
             Diff |-> [m \in Metrics |-> DiffCell(kept[i], m)],
             AbsDiff |-> [m \in Metrics |-> AbsCell(DiffCell(kept[i], m))]]]
AddDiffColumns(df) ==
    [i \in 1..Len(df) |->
        [ParticipantID |-> df[i].ParticipantID,
         Manual |-> df[i].Manual,
         Claude |-> df[i].Claude,
         Diff |-> [m \in Metrics |-> DiffCell(df[i], m)],
         AbsDiff |-> [m \in Metrics |-> AbsCell(DiffCell(df[i], m))]]]

\* The rows printed for one metric: ParticipantID, manual, Claude, Diff.
DiscrepanciesOf(df, metric, t) ==
    LET Large(r) == AtLeast(r.AbsDiff[metric], t)
        hits == SelectSeq(df, Large)
    IN  [j \in 1..Len(hits) |->
            [metric |-> metric,
             ParticipantID |-> hits[j].ParticipantID,
             manual |-> hits[j].Manual[metric],
             claude |-> hits[j].Claude[metric],
             diff |-> hits[j].Diff[metric]]]

Discrepancies(df, t) ==
    Flatten([k \in 1..Len(metrics) |-> DiscrepanciesOf(df, metrics[k], t)])

\* main step 5.  main passes threshold=2; other callers may pass another
\* threshold or none.
AnalyzeDiscrepancies ==
    /\ pc = "stats_done"
    /\ \E arg \in ThresholdArgs :
          /\ threshold_arg' = arg
          /\ merged_df' = AddDiffColumns(merged_df)
          /\ flagged' = Discrepancies(AddDiffColumns(merged_df), EffectiveThreshold(arg))
    /\ pc' = "discrepancies_done"
    /\ UNCHANGED <<coding_vars, pingouin_available, tiers, icc_failed, json_folder, manual_xlsx, claude_df, manual_df, merged_csv,
                   results, report, load_errors, manual_only, claude_only,
                   no_valid_data, plots, all_metrics, fatal>>

(***************************************************************************)
(* create_visualizations: one figure per metric with at least one complete *)
(* pair; pearsonr is called again for the title.                           *)
(***************************************************************************)
CreateVisualizations ==
    /\ pc = "discrepancies_done"
    /\ IF FirstRaising(merged_df) <= Len(metrics)
       THEN /\ pc' = "aborted"
            /\ fatal' = "ValueError"
            /\ plots' = {m \in Reached(merged_df) : Len(ValidData(merged_df, m)) > 0}
       ELSE /\ plots' = {m \in Metrics : Len(ValidData(merged_df, m)) > 0}
            /\ pc' = "plots_done"
            /\ UNCHANGED fatal
    /\ UNCHANGED <<coding_vars, pingouin_available, tiers, icc_failed, json_folder, manual_xlsx, claude_df, manual_df, merged_df,
                   merged_csv, results, report, load_errors, manual_only,
                   claude_only, no_valid_data, flagged, threshold_arg,
                   all_metrics>>

(***************************************************************************)
(* generate_summary_report.                                                *)
(***************************************************************************)
\* results.items(): the metrics in insertion order.
ResultKeys(res) ==
    LET In(m) == m \in DOMAIN res
    IN  SelectSeq(metrics, In)

RECURSIVE SeqProd(_)
SeqProd(s) == IF s = <<>> THEN 1 ELSE Head(s) * SeqProd(Tail(s))

\* np.mean of the correlations is nan for an empty list or a nan entry.
AvgCorrIsNaN(res) ==
    DOMAIN res = {} \/ \E m \in DOMAIN res : IsNaN(res[m].correlation)

\* avg_corr >= pct / 100, on the correlations in hundredths.
AvgCorrAtLeastSkipNaN(res, pct) ==
    LET Numeric(m) == m \in DOMAIN res /\ ~IsNaN(res[m].correlation)
        keys == SelectSeq(metrics, Numeric)
    IN  /\ keys # <<>>
        /\ SeqSum([i \in 1..Len(keys) |-> res[keys[i]].correlation.val])
              >= pct * Len(keys)
AvgCorrAtLeast(res, pct) ==
    LET keys == ResultKeys(res)
    IN  /\ ~AvgCorrIsNaN(res)
        /\ SeqSum([i \in 1..Len(keys) |-> res[keys[i]].correlation.val])
              >= pct * Len(keys)

\* avg_mae < num / den, exactly: the mean over the metrics of
\* abs_error_sum / n, cleared of denominators.
AvgMaeAtMost(res, num, den) ==
    LET keys == ResultKeys(res)
        all == SeqProd([i \in 1..Len(keys) |-> res[keys[i]].n])
    IN  /\ keys # <<>>
        /\ den * SeqSum([i \in 1..Len(keys) |->
                  res[keys[i]].abs_error_sum * (all \div res[keys[i]].n)])
              <= num * Len(keys) * all
AvgMaeBelow(res, num, den) ==
    LET keys == ResultKeys(res)
        all == SeqProd([i \in 1..Len(keys) |-> res[keys[i]].n])
    IN  /\ keys # <<>>
        /\ den * SeqSum([i \in 1..Len(keys) |->
                  res[keys[i]].abs_error_sum * (all \div res[keys[i]].n)])
              < num * Len(keys) * all

Conclusion(res) ==
    IF AvgCorrAtLeast(res, 85) /\ AvgMaeBelow(res, 3, 2) THEN "Excellent"
    ELSE IF AvgCorrAtLeast(res, 70) /\ AvgMaeBelow(res, 5, 2) THEN "Good to moderate"
    ELSE "Poor"

\* The file written: the sample size, one section per entry of results (with
\* the ICC line if 'icc' in stats), and the conclusion.
SummaryReport(df, res) ==
    [sample_size |-> Len(df),
     sections |-> [i \in 1..Len(ResultKeys(res)) |->
                      [metric |-> ResultKeys(res)[i],
                       stats |-> res[ResultKeys(res)[i]],
                       icc_line |-> res[ResultKeys(res)[i]].has_icc]],
     conclusion |-> Conclusion(res)]

NoReport == [sample_size |-> 0, sections |-> <<>>, conclusion |-> "none"]

\* main step 7.
GenerateSummaryReport ==
    /\ pc = "plots_done"
    /\ report' = SummaryReport(merged_df, results)
    /\ pc' = "done"
    /\ UNCHANGED <<coding_vars, pingouin_available, tiers, icc_failed, json_folder, manual_xlsx, claude_df, manual_df, merged_df,
                   merged_csv, results, load_errors, manual_only, claude_only,
                   no_valid_data, flagged, plots, threshold_arg, all_metrics, fatal>>

(***************************************************************************)
(* coded_json_analyzer.py, a separate script over the same folder:         *)
(* extract_metrics_from_file returns None for a file json.load rejects,    *)
(* and collect_all_metrics keeps the files that did not return None.       *)
(***************************************************************************)
\* data.get('creativity_metrics', {}).get(key, None); None is the missing cell.
ExtractMetric(file, key) ==
    IF CreativityMetrics(file)[key].has
    THEN Num(CreativityMetrics(file)[key].val)
    ELSE NaN

ExtractMetricsFromFile(file) ==
    [file_name |-> file.stem,
     scores |-> [k \in JsonKeys |-> ExtractMetric(file, k)]]

RECURSIVE CollectMetrics(_)
CollectMetrics(files) ==
    IF files = <<>> THEN <<>>
    ELSE IF ~Parses(Head(files)) THEN CollectMetrics(Tail(files))
    ELSE <<ExtractMetricsFromFile(Head(files))>> \o CollectMetrics(Tail(files))

CollectAllMetrics ==
    /\ pc = "start"
    /\ all_metrics' = CollectMetrics(json_folder)
    /\ pc' = "metrics_collected"
    /\ UNCHANGED <<coding_vars, pingouin_available, tiers, icc_failed, json_folder, manual_xlsx, claude_df, manual_df, merged_df,
                   merged_csv, results, report, load_errors, manual_only,
                   claude_only, no_valid_data, flagged, plots, threshold_arg,
                   fatal>>

(***************************************************************************)
(* 2_run_llm_coding.py: main() codes every prepared transcript that has no *)
(* output file yet and saves a summary.  The script is run again and again *)
(* over the same output folder.                                            *)
(***************************************************************************)
ParticipantIds == {"P01", "P02"}

\* What code_transcript_with_claude returns: (None, error_msg), or the coded
\* data with the token counts of the call in _api_metadata.
ApiError == [ok |-> FALSE, input_tokens |-> 0, output_tokens |-> 0]
ApiOutcomes ==
    { ApiError,
      [ok |-> TRUE, input_tokens |-> 1, output_tokens |-> 2],
      [ok |-> TRUE, input_tokens |-> 2, output_tokens |-> 1] }

\* A file left in the folder before the first run.
OlderFile == [written_in |-> 0, input_tokens |-> 0, output_tokens |-> 0]

NoSummary ==
    [total_transcripts |-> 0, successfully_coded |-> 0, already_coded |-> 0,
     errors |-> 0, total_input_tokens |-> 0, total_output_tokens |-> 0,
     saved_in |-> 0]

\* output_file.exists()
AlreadyCodedNever(dir, participant_id) == FALSE
AlreadyCoded(dir, participant_id) == participant_id \in DOMAIN dir

\* open(output_file, 'w') and json.dump(coded_data, f)
WriteOutput(dir, participant_id, file) ==
    [x \in DOMAIN dir \cup {participant_id} |->
        IF x = participant_id THEN file ELSE dir[x]]

\* A run that reaches the loop: the lists and the token totals start empty.
StartRunKeepTotals ==
    /\ coding_pc \in {"idle", "finished", "returned"}
    /\ run < MaxRuns
    /\ run' = run + 1
    /\ coding_results' = <<>>
    /\ errors' = <<>>
    /\ skipped' = <<>>
    /\ loop_i' = 1
    /\ coding_pc' = "loop"
    /\ UNCHANGED <<validation_vars, transcripts, output_dir, api_calls,
                   summary, total_input_tokens, total_output_tokens>>
StartRun ==
    /\ coding_pc \in {"idle", "finished", "returned"}
    /\ run < MaxRuns
    /\ run' = run + 1
    /\ coding_results' = <<>>
    /\ errors' = <<>>
    /\ skipped' = <<>>
    /\ total_input_tokens' = 0
    /\ total_output_tokens' = 0
    /\ loop_i' = 1
    /\ coding_pc' = "loop"
    /\ UNCHANGED <<validation_vars, transcripts, output_dir, api_calls, summary>>

\* A run that returns before the loop: no API key, no prompt file or no
\* prepared transcripts file.
ReturnBeforeLoop ==
    /\ coding_pc \in {"idle", "finished", "returned"}
    /\ run < MaxRuns
    /\ run' = run + 1
    /\ coding_results' = <<>>
    /\ errors' = <<>>
    /\ skipped' = <<>>
    /\ total_input_tokens' = 0
    /\ total_output_tokens' = 0
    /\ loop_i' = 1
    /\ coding_pc' = "returned"
    /\ UNCHANGED <<validation_vars, transcripts, output_dir, api_calls, summary>>

\* One iteration of the coding loop.
ProcessTranscript ==
    /\ coding_pc = "loop"
    /\ loop_i <= Len(transcripts)
    /\ LET participant_id == transcripts[loop_i]
       IN  IF AlreadyCoded(output_dir, participant_id)
           THEN /\ skipped' = Append(skipped, participant_id)
                /\ UNCHANGED <<output_dir, coding_results, errors,
                               total_input_tokens, total_output_tokens,
                               api_calls>>
           ELSE \E outcome \in ApiOutcomes :
                  /\ api_calls' = api_calls \cup
                        {[run |-> run, participant_id |-> participant_id,
                          outcome |-> outcome]}
                  /\ IF ~outcome.ok
                     THEN /\ errors' = Append(errors, participant_id)
                          /\ UNCHANGED <<output_dir, coding_results,
                                         total_input_tokens,
                                         total_output_tokens>>
                     ELSE /\ output_dir' =
                               WriteOutput(output_dir, participant_id,
                                   [written_in |-> run,
                                    input_tokens |-> outcome.input_tokens,
                                    output_tokens |-> outcome.output_tokens])
                          /\ total_input_tokens' =
                               total_input_tokens + outcome.input_tokens
                          /\ total_output_tokens' =
                               total_output_tokens + outcome.output_tokens
                          /\ coding_results' =
                               Append(coding_results, participant_id)
                          /\ UNCHANGED errors
                  /\ UNCHANGED skipped
    /\ loop_i' = loop_i + 1
    /\ UNCHANGED <<validation_vars, transcripts, run, coding_pc, summary>>

\* After the loop: _coding_summary.json is written.
SaveSummary ==
    /\ coding_pc = "loop"
    /\ loop_i > Len(transcripts)
    /\ summary' =
          [total_transcripts |-> Len(transcripts),
           successfully_coded |-> Len(coding_results),
           already_coded |-> Len(skipped),
           errors |-> Len(errors),
           total_input_tokens |-> total_input_tokens,
           total_output_tokens |-> total_output_tokens,
           saved_in |-> run]
    /\ coding_pc' = "finished"
    /\ UNCHANGED <<validation_vars, transcripts, output_dir, run, loop_i,
                   coding_results, errors, skipped, total_input_tokens,
                   total_output_tokens, api_calls>>

\* The coding script has not been started.
CodingIdle ==
    /\ transcripts = <<>>
    /\ output_dir = <<>>
    /\ run = 0
    /\ coding_pc = "idle"
    /\ loop_i = 1
    /\ coding_results = <<>>
    /\ errors = <<>>
    /\ skipped = <<>>
    /\ total_input_tokens = 0
    /\ total_output_tokens = 0
    /\ api_calls = {}
    /\ summary = NoSummary

(***************************************************************************)
(* The run.                                                                *)
(***************************************************************************)
\* The inputs of a run and the empty outputs.
InitRun ==
    /\ json_folder \in Folders
    /\ manual_xlsx \in Sheets(Len(json_folder))
    /\ pc = "start"
    /\ claude_df = <<>>
    /\ manual_df = <<>>
    /\ merged_df = <<>>
    /\ merged_csv = <<>>
    /\ results = <<>>
    /\ report = NoReport
    /\ load_errors = <<>>
    /\ manual_only = {}
    /\ claude_only = {}
    /\ no_valid_data = {}
    /\ flagged = <<>>
    /\ plots = {}
    /\ threshold_arg = NoThreshold
    /\ all_metrics = <<>>
    /\ fatal = "none"
    /\ tiers = <<>>
    /\ icc_failed = {}
    /\ CodingIdle

\* A run where the import of pingouin failed.
Init == InitRun /\ pingouin_available = FALSE

\* A run where the import of pingouin failed or succeeded.
InitIcc == InitRun /\ pingouin_available \in BOOLEAN

Next ==
    \/ LoadClaudeJsonFiles
    \/ LoadManualCoding
    \/ MergeDatasets
    \/ SaveMergedCsv
    \/ CalculateAgreementStatistics
    \/ AnalyzeDiscrepancies
    \/ CreateVisualizations
    \/ GenerateSummaryReport
    \/ CollectAllMetrics

Spec == Init /\ [][Next]_vars

SpecIcc == InitIcc /\ [][Next]_vars

(***************************************************************************)
(* The interpretation of a results dict on its own: the interpretation     *)
(* lines of calculate_agreement_statistics and the conclusion of           *)
(* generate_summary_report depend on the entries of results only, so they  *)
(* are run here on dicts whose correlations (in hundredths) and mean       *)
(* absolute errors stand on and around every threshold of the code.        *)
(***************************************************************************)
CorrValues == {NaN} \cup {Num(c) : c \in {-100, 69, 70, 80, 85, 90, 100}}

\* abs_error_sum and n with mae = 0, 1.5, 2.5, 3 and 1.25.
ErrorSums ==
    { [abs_error_sum |-> 0, n |-> 4], [abs_error_sum |-> 6, n |-> 4],
      [abs_error_sum |-> 10, n |-> 4], [abs_error_sum |-> 12, n |-> 4],
      [abs_error_sum |-> 10, n |-> 8] }

StatsInputs ==
    { [correlation |-> c, abs_error_sum |-> e.abs_error_sum,
       difference_sum |-> 0, n |-> e.n, has_icc |-> FALSE] :
        c \in CorrValues, e \in ErrorSums }

ResultCollections == UNION { [D -> StatsInputs] : D \in SUBSET Metrics }

InitReport ==
    /\ results \in ResultCollections
    /\ pc = "results_given"
    /\ json_folder = <<>>
    /\ manual_xlsx = <<>>
    /\ claude_df = <<>>
    /\ manual_df = <<>>
    /\ merged_df = <<>>
    /\ merged_csv = <<>>
    /\ report = NoReport
    /\ load_errors = <<>>
    /\ manual_only = {}
    /\ claude_only = {}
    /\ no_valid_data = {}
    /\ flagged = <<>>
    /\ plots = {}
    /\ threshold_arg = NoThreshold
    /\ all_metrics = <<>>
    /\ fatal = "none"
    /\ pingouin_available = FALSE
    /\ tiers = <<>>
    /\ icc_failed = {}
    /\ CodingIdle

\* The if / elif chain under each metric's statistics, for every entry.
PrintInterpretations ==
    /\ pc = "results_given"
    /\ tiers' = Interpretations(results)
    /\ pc' = "plots_done"
    /\ UNCHANGED <<coding_vars, pingouin_available, icc_failed, json_folder, manual_xlsx,
                   claude_df, manual_df, merged_df, merged_csv, results,
                   report, load_errors, manual_only, claude_only,
                   no_valid_data, flagged, plots, threshold_arg, all_metrics,
                   fatal>>

NextReport ==
    \/ PrintInterpretations
    \/ GenerateSummaryReport

SpecReport == InitReport /\ [][NextReport]_vars

(***************************************************************************)
(* The coding script on its own: any list of prepared transcripts, over a  *)
(* folder that may hold output files of earlier runs.                      *)
(***************************************************************************)
InitCoding ==
    /\ transcripts \in SeqsUpTo(ParticipantIds, MaxTranscripts)
    /\ output_dir \in
          UNION { [D -> {OlderFile}] : D \in SUBSET ParticipantIds }
    /\ run = 0
    /\ coding_pc = "idle"
    /\ loop_i = 1
    /\ coding_results = <<>>
    /\ errors = <<>>
    /\ skipped = <<>>
    /\ total_input_tokens = 0
    /\ total_output_tokens = 0
    /\ api_calls = {}
    /\ summary = NoSummary
    /\ json_folder = <<>>
    /\ manual_xlsx = <<>>
    /\ pc = "start"
    /\ claude_df = <<>>
    /\ manual_df = <<>>
    /\ merged_df = <<>>
    /\ merged_csv = <<>>
    /\ results = <<>>
    /\ report = NoReport
    /\ load_errors = <<>>
    /\ manual_only = {}
    /\ claude_only = {}
    /\ no_valid_data = {}
    /\ flagged = <<>>
    /\ plots = {}
    /\ threshold_arg = NoThreshold
    /\ all_metrics = <<>>
    /\ fatal = "none"
    /\ pingouin_available = FALSE
    /\ tiers = <<>>
    /\ icc_failed = {}

NextCoding ==
    \/ StartRun
    \/ ReturnBeforeLoop
    \/ ProcessTranscript
    \/ SaveSummary

SpecCoding == InitCoding /\ [][NextCoding]_vars

(***************************************************************************)
(* Positions of the run used by the properties.                            *)
(***************************************************************************)
AfterStats == {"stats_done", "discrepancies_done", "plots_done", "done"}
AfterMerge == {"merged", "csv_saved"} \cup AfterStats
AfterDiscrepancies == {"discrepancies_done", "plots_done", "done"}

\* load_claude_json_files has returned a table.
LoadReturned ==
    \/ pc \in {"claude_loaded", "manual_loaded"} \cup AfterMerge
    \/ pc = "aborted" /\ fatal \in {"KeyError", "ValueError"}

\* merge_datasets has returned a table.
MergeReturned == pc \in AfterMerge \/ (pc = "aborted" /\ fatal = "ValueError")

\* calculate_agreement_statistics has run, to its return or to an exception.
StatsRan == pc \in AfterStats \/ (pc = "aborted" /\ fatal = "ValueError")

\* Rows of df in which both values of the metric are present.
PairRows(df, m) ==
    {i \in 1..Len(df) : ~IsNaN(df[i].Manual[m]) /\ ~IsNaN(df[i].Claude[m])}

RECURSIVE SetSum(_, _)
SetSum(S, f) ==
    IF S = {} THEN 0
    ELSE LET x == CHOOSE y \in S : TRUE IN f[x] + SetSum(S \ {x}, f)

HasDuplicateId(df) ==
    \E i, j \in 1..Len(df) : i # j /\ df[i].ParticipantID = df[j].ParticipantID

\* The same files in every order.
Reorderings(files) ==
    {[i \in 1..Len(files) |-> files[q[i]]] : q \in Permutations(1..Len(files))}

\* The rows of a table without the derived columns.
AlignedRows(df) ==
    {[ParticipantID |-> df[i].ParticipantID, Manual |-> df[i].Manual,
      Claude |-> df[i].Claude] : i \in 1..Len(df)}

RECURSIVE SetProd(_, _)
SetProd(S, f) ==
    IF S = {} THEN 1
    ELSE LET x == CHOOSE y \in S : TRUE IN f[x] * SetProd(S \ {x}, f)

(***************************************************************************)
(* C1.  The table merge_datasets returns has as many rows as there are     *)
(* distinct identifiers occurring in both the manual and the automated     *)
(* table.  The inner merge pairs every manual row with every automated row *)
(* of the same identifier, so the statement fails once an identifier       *)
(* repeats within a source.                                                *)
(***************************************************************************)
C1_RowCountIsIntersection ==
    MergeReturned =>
        Len(merged_df) = Cardinality(IdSet(manual_df) \cap IdSet(claude_df))

(***************************************************************************)
(* C2.  An identifier that occurs twice within one source is surfaced as   *)
(* a data-integrity error: merge_datasets never returns a table built from *)
(* a source with a repeated identifier.                                    *)
(***************************************************************************)
C2_DuplicatesSurfaced ==
    MergeReturned => ~HasDuplicateId(manual_df) /\ ~HasDuplicateId(claude_df)

(***************************************************************************)
(* C3.  Once calculate_agreement_statistics has run, every metric with 0   *)
(* or 1 valid pairs has no entry in the results and was reported as        *)
(* having no valid data.                                                   *)
(***************************************************************************)
C3_FewPairsReportedUnavailable ==
    StatsRan =>
        \A m \in Metrics :
            Cardinality(PairRows(merged_df, m)) <= 1 =>
                m \notin DOMAIN results /\ m \in no_valid_data

(***************************************************************************)
(* C4.  When some metric has fewer than 2 valid pairs, the run is not      *)
(* aborted by calculate_agreement_statistics and every metric with at      *)
(* least 2 valid pairs has its statistics returned.                        *)
(***************************************************************************)
C4_OtherMetricsStillReturned ==
    StatsRan =>
        \A d, m \in Metrics :
            (/\ Cardinality(PairRows(merged_df, d)) < 2
             /\ Cardinality(PairRows(merged_df, m)) >= 2)
                => pc # "aborted" /\ m \in DOMAIN results

C6_FlaggedIffAtLeastThreshold ==
    LET T == IF threshold_arg.given THEN threshold_arg.val ELSE 2
        Expected(i, m) ==
            /\ i \in PairRows(merged_df, m)
            /\ Abs(merged_df[i].Manual[m].val - merged_df[i].Claude[m].val) >= T
        Shows(k, i, m) ==
            /\ flagged[k].metric = m
            /\ flagged[k].ParticipantID = merged_df[i].ParticipantID
            /\ flagged[k].manual = merged_df[i].Manual[m]
            /\ flagged[k].claude = merged_df[i].Claude[m]
    IN  pc \in AfterDiscrepancies =>
            /\ \A i \in 1..Len(merged_df) : \A m \in Metrics :
                  (\E k \in 1..Len(flagged) : Shows(k, i, m)) <=> Expected(i, m)
            /\ \A m \in Metrics :
                  Cardinality({k \in 1..Len(flagged) : flagged[k].metric = m})
                    = Cardinality({i \in 1..Len(merged_df) : Expected(i, m)})
            /\ \A k \in 1..Len(flagged) :
                  /\ ~IsNaN(flagged[k].manual) /\ ~IsNaN(flagged[k].claude)
                  /\ flagged[k].diff
                        = Num(flagged[k].manual.val - flagged[k].claude.val)

\* Called without a threshold: a pair manual=1, automated=3 is printed with
\* difference -2, and a row with a missing value is not printed.
C6_Witness ==
    /\ pc = "discrepancies_done"
    /\ ~threshold_arg.given
    /\ \E k \in 1..Len(flagged) :
          /\ flagged[k].manual = Num(1)
          /\ flagged[k].claude = Num(3)
          /\ flagged[k].diff = Num(-2)
    /\ \E i \in 1..Len(merged_df) : \E m \in Metrics :
          /\ i \notin PairRows(merged_df, m)
          /\ \A k \in 1..Len(flagged) :
                flagged[k].ParticipantID = merged_df[i].ParticipantID
                    => flagged[k].metric # m

C8_StatsOverValidPairsOnly ==
    pc \in AfterStats =>
        \A m \in Metrics :
            LET rows == PairRows(merged_df, m)
                Diff == [i \in rows |->
                            merged_df[i].Manual[m].val - merged_df[i].Claude[m].val]
                AbsDiff == [i \in rows |-> Abs(Diff[i])]
            IN  IF rows = {} THEN m \notin DOMAIN results
                ELSE /\ m \in DOMAIN results
                     /\ results[m].n = Cardinality(rows)
                     /\ results[m].difference_sum = SetSum(rows, Diff)
                     /\ results[m].abs_error_sum = SetSum(rows, AbsDiff)

\* A row lacks a value of one metric and is counted in another.
C8_Witness ==
    /\ pc = "stats_done"
    /\ \E i \in 1..Len(merged_df) : \E m, k \in Metrics :
          /\ i \notin PairRows(merged_df, m)
          /\ i \in PairRows(merged_df, k)
          /\ k \in DOMAIN results
          /\ results[k].n = Len(merged_df)

(***************************************************************************)
(* C9.  A score key absent from a loaded file, or from a file without a    *)
(* creativity_metrics section, is the missing cell in the loaded table and *)
(* in the analyzer's list, never the number 0; the n of a metric never     *)
(* exceeds the pairs of a manual row and a loaded file of the same         *)
(* identifier in which the file has the key.                               *)
(***************************************************************************)
C9_AbsentScoreIsMissing ==
    LET Loadable(f) == ~LoadRaises(f)
        loadable == SelectSeq(json_folder, Loadable)
        Parseable(f) == Parses(f)
        parseable == SelectSeq(json_folder, Parseable)
        HasKey(f, m) ==
            f.json.has_creativity_metrics /\ f.json.creativity_metrics[JsonKey(m)].has
        Scored(m) ==
            {p \in (1..Len(manual_df)) \X (1..Len(loadable)) :
                /\ manual_df[p[1]].ParticipantID
                      = SplitFirst(IdField(loadable[p[2]]).s)
                /\ HasKey(loadable[p[2]], m)}
    IN  /\ LoadReturned =>
            \A k \in 1..Len(claude_df) : \A m \in Metrics :
                ~HasKey(loadable[k], m) => claude_df[k].Claude[m] = NaN
        /\ pc \in AfterStats =>
            \A m \in DOMAIN results : results[m].n <= Cardinality(Scored(m))
        /\ pc = "metrics_collected" =>
            \A k \in 1..Len(all_metrics) : \A m \in Metrics :
                ~HasKey(parseable[k], m) => all_metrics[k].scores[JsonKey(m)] = NaN

\* A loaded file lacks the elaboration_total key, its subject is aligned, and
\* the statistics were returned with Fluency and without Elaboration.
C9_Witness ==
    /\ pc = "stats_done"
    /\ \E k \in 1..Len(claude_df) :
          /\ claude_df[k].Claude["Elaboration"] = NaN
          /\ claude_df[k].Claude["Fluency"] # NaN
          /\ claude_df[k].ParticipantID \in IdSet(merged_df)
    /\ "Fluency" \in DOMAIN results
    /\ "Elaboration" \notin DOMAIN results

(***************************************************************************)
(* C10.  A metric with zero valid pairs is named as having no valid data   *)
(* in the statistics returned and in the report written.                   *)
(***************************************************************************)
C10_ZeroPairsNamedInOutputs ==
    pc = "done" =>
        \A m \in Metrics :
            PairRows(merged_df, m) = {} =>
                /\ m \in DOMAIN results
                /\ \E k \in 1..Len(report.sections) : report.sections[k].metric = m

(***************************************************************************)
(* C11.  The conclusion written is a function of the entries of results    *)
(* only and exactly one is written: with avg_r the mean of the             *)
(* correlations and avg_mae the mean of the mean absolute errors, it is    *)
(* "Excellent" iff avg_r >= 0.85 and avg_mae < 1.5; otherwise "Good to     *)
(* moderate" iff avg_r >= 0.70 and avg_mae < 2.5; otherwise "Poor".  A     *)
(* mean over no entry, or over an undefined correlation, passes no test.   *)
(***************************************************************************)
C11_ConclusionFromAverages ==
    LET D == DOMAIN results
        k == Cardinality(D)
        r == [m \in D |-> results[m].correlation.val]
        ns == [m \in D |-> results[m].n]
        \* abs_error_sum / n of each entry, times the product of all n
        scaled == [m \in D |->
                     results[m].abs_error_sum * (SetProd(D, ns) \div results[m].n)]
        numeric == D # {} /\ \A m \in D : ~IsNaN(results[m].correlation)
        AvgRAtLeast(pct) == numeric /\ SetSum(D, r) >= pct * k
        \* avg_mae < half / 2
        AvgMaeUnder(half) ==
            D # {} /\ 2 * SetSum(D, scaled) < half * k * SetProd(D, ns)
        excellent == AvgRAtLeast(85) /\ AvgMaeUnder(3)
        good == ~excellent /\ AvgRAtLeast(70) /\ AvgMaeUnder(5)
    IN  pc = "done" =>
            /\ report.conclusion \in {"Excellent", "Good to moderate", "Poor"}
            /\ report.conclusion = "Excellent" <=> excellent
            /\ report.conclusion = "Good to moderate" <=> good
            /\ report.conclusion = "Poor" <=> ~excellent /\ ~good
            /\ report.conclusion = Conclusion(results)

\* Two metrics with correlations 0.80 and 0.90 and mean absolute error 1.5
\* each: the averages are 0.85 and 1.5, and the conclusion is the second one.
C11_Witness ==
    /\ pc = "done"
    /\ DOMAIN results = {"Fluency", "Flexibility"}
    /\ results["Fluency"].correlation = Num(80)
    /\ results["Flexibility"].correlation = Num(90)
    /\ \A m \in DOMAIN results : 2 * results[m].abs_error_sum = 3 * results[m].n
    /\ report.conclusion = "Good to moderate"

(***************************************************************************)
(* C12.  A metric whose manual or automated values are all equal over the  *)
(* valid pairs has an undefined correlation; the run goes on, no           *)
(* interpretation line classifies that metric, and the report does not     *)
(* draw one of its three conclusions from an average over it.              *)
(***************************************************************************)
C12_UndefinedCorrelationKeptApart ==
    LET Undefined == {m \in DOMAIN results : IsNaN(results[m].correlation)}
    IN  /\ pc \in AfterStats => \A m \in Undefined : m \notin DOMAIN tiers
        /\ (pc = "done" /\ Undefined # {}) =>
              report.conclusion \notin {"Excellent", "Good to moderate", "Poor"}

(***************************************************************************)
(* C13.  The interpretation printed for a numeric correlation r is         *)
(* "Excellent" iff r >= 0.90, "Good" iff 0.80 <= r < 0.90, "Acceptable"    *)
(* iff 0.70 <= r < 0.80 and "Poor" iff r < 0.70: exactly one of the four,  *)
(* each boundary value in the higher one.                                  *)
(***************************************************************************)
C13_TierOfNumericCorrelation ==
    pc \in {"plots_done", "done"} =>
        /\ DOMAIN tiers = DOMAIN results
        /\ \A m \in DOMAIN results :
              LET c == results[m].correlation
              IN  ~IsNaN(c) =>
                    /\ tiers[m] \in {"Excellent", "Good", "Acceptable", "Poor"}
                    /\ tiers[m] = "Excellent" <=> c.val >= 90
                    /\ tiers[m] = "Good" <=> (80 <= c.val /\ c.val < 90)
                    /\ tiers[m] = "Acceptable" <=> (70 <= c.val /\ c.val < 80)
                    /\ tiers[m] = "Poor" <=> c.val < 70

\* The three boundary values 0.90, 0.80 and 0.70 in one results dict.
C13_Witness ==
    /\ pc = "plots_done"
    /\ DOMAIN results = Metrics
    /\ results["Fluency"].correlation = Num(90) /\ tiers["Fluency"] = "Excellent"
    /\ results["Flexibility"].correlation = Num(80) /\ tiers["Flexibility"] = "Good"
    /\ results["Elaboration"].correlation = Num(70)
    /\ tiers["Elaboration"] = "Acceptable"

(***************************************************************************)
(* C14.  The ICC is optional and never fatal.  Whether the library is      *)
(* missing or calculate_icc fails for a metric, every metric with valid    *)
(* pairs keeps its entry and its other statistics; an entry has the ICC    *)
(* only if the library is available and the computation returned for that  *)
(* metric; the statistics step aborts only where pearsonr raises; and the  *)
(* report has a section for every entry, with an ICC line exactly for the  *)
(* entries that have one.  The entries are looked at when the statistics   *)
(* step returns; no later step changes them.                               *)
(***************************************************************************)
C14_IccOptionalNeverFatal ==
    /\ pc = "stats_done" =>
          /\ DOMAIN results = {m \in Metrics : PairRows(merged_df, m) # {}}
          /\ \A m \in DOMAIN results :
                /\ [results[m] EXCEPT !.has_icc = FALSE]
                      = MetricStats(ValidData(merged_df, m), m)
                /\ results[m].has_icc => pingouin_available /\ m \notin icc_failed
                /\ m \in icc_failed => ~results[m].has_icc
          /\ ~pingouin_available =>
                icc_failed = {} /\ \A m \in DOMAIN results : ~results[m].has_icc
    /\ (pc = "aborted" /\ fatal = "ValueError") =>
          \E m \in Metrics : Cardinality(PairRows(merged_df, m)) = 1
    /\ pc = "done" =>
          /\ {report.sections[k].metric : k \in 1..Len(report.sections)}
                = DOMAIN results
          /\ \A k \in 1..Len(report.sections) :
                report.sections[k].icc_line
                    <=> results[report.sections[k].metric].has_icc

\* The library is available, calculate_icc failed for one metric and returned
\* for another, and the report was written with both sections.
C14_Witness ==
    /\ pc = "done"
    /\ pingouin_available
    /\ \E k, j \in 1..Len(report.sections) :
          /\ report.sections[k].metric \in icc_failed
          /\ ~report.sections[k].icc_line
          /\ report.sections[j].icc_line

(***************************************************************************)
(* C15.  analyze_discrepancies, for any threshold, returns the table it    *)
(* was given with the <metric>_Diff and <metric>_AbsDiff columns added:    *)
(* the same rows in the same order, every ParticipantID and every manual   *)
(* and automated value as before the call.  (The table before the call is  *)
(* the one written to merged_comparison.csv.)                              *)
(***************************************************************************)
C15_DiscrepancyColumnsOnlyAdded ==
    [][ (pc = "stats_done" /\ pc' = "discrepancies_done") =>
          /\ Len(merged_df') = Len(merged_df)
          /\ \A i \in 1..Len(merged_df) :
                /\ merged_df'[i].ParticipantID = merged_df[i].ParticipantID
                /\ merged_df'[i].Manual = merged_df[i].Manual
                /\ merged_df'[i].Claude = merged_df[i].Claude
                /\ DOMAIN merged_df'[i]
                      = DOMAIN merged_df[i] \cup {"Diff", "AbsDiff"} ]_vars

\* A call with a given threshold on a table of two rows, one of them with a
\* missing value, that printed at least one discrepancy.
C15_Witness ==
    /\ pc = "discrepancies_done"
    /\ threshold_arg.given
    /\ Len(merged_df) = 2
    /\ Len(merged_csv) = 2
    /\ \E i \in 1..2 : \E m \in Metrics : IsNaN(merged_df[i].AbsDiff[m])
    /\ flagged # <<>>

(***************************************************************************)
(* C16.  At the end of a run merged_comparison.csv has one row per row of  *)
(* the aligned table and holds, next to the manual and automated values,   *)
(* the <metric>_Diff and <metric>_AbsDiff columns: the file shows the      *)
(* table as it stands after analyze_discrepancies.                         *)
(***************************************************************************)
C16_CsvHasDifferenceColumns ==
    pc = "done" =>
        /\ Len(merged_csv) = Len(merged_df)
        /\ \A i \in 1..Len(merged_csv) :
              /\ {"Diff", "AbsDiff"} \subseteq DOMAIN merged_csv[i]
              /\ merged_csv[i] = merged_df[i]

(***************************************************************************)
(* C17.  Every per-file load error, every identifier found on one side     *)
(* only and every metric without valid data is in the report written.  The *)
(* report consists of the sample size, the sections of the metrics in      *)
(* results and the conclusion, so it shows them all only if there are      *)
(* none.                                                                   *)
(***************************************************************************)
C17_WarningsInReport ==
    pc = "done" =>
        /\ load_errors = <<>>
        /\ manual_only = {}
        /\ claude_only = {}
        /\ no_valid_data \subseteq
              {report.sections[k].metric : k \in 1..Len(report.sections)}

(***************************************************************************)
(* C18.  What a run produces does not depend on the order of the files in  *)
(* the folder: read in any other order, the same set of files gives the    *)
(* same set of loaded records, the same set of aligned rows, the same      *)
(* one-sided identifier sets, the same set of valid pairs and the same n   *)
(* for every metric, and the same set of printed discrepancies; each is    *)
(* compared where the run has just produced it.                            *)
(***************************************************************************)
C18_FileOrderIrrelevant ==
    LET Merged(other) == InnerMerge(manual_df, LoadRecords(other))
    IN  /\ pc = "claude_loaded" =>
              \A other \in Reorderings(json_folder) :
                  Range(claude_df) = Range(LoadRecords(other))
        /\ pc = "merged" =>
              \A other \in Reorderings(json_folder) :
                  /\ AlignedRows(merged_df) = AlignedRows(Merged(other))
                  /\ manual_only = ManualOnly(manual_df, LoadRecords(other))
                  /\ claude_only = ClaudeOnly(manual_df, LoadRecords(other))
                  /\ \A m \in Metrics :
                        AlignedRows(ValidData(merged_df, m))
                            = AlignedRows(ValidData(Merged(other), m))
        /\ pc = "stats_done" =>
              \A other \in Reorderings(json_folder) :
                  /\ DOMAIN results = DOMAIN AgreementResults(Merged(other))
                  /\ \A m \in DOMAIN results :
                        results[m].n = Len(ValidData(Merged(other), m))
        /\ pc = "discrepancies_done" =>
              \A other \in Reorderings(json_folder) :
                  Range(flagged)
                      = Range(Discrepancies(AddDiffColumns(Merged(other)),
                                            EffectiveThreshold(threshold_arg)))

\* Two files of one subject with different scores, both aligned with the
\* subject's manual row, and a discrepancy printed.
C18_Witness ==
    /\ pc = "discrepancies_done"
    /\ Len(claude_df) = 2
    /\ claude_df[1].ParticipantID = claude_df[2].ParticipantID
    /\ claude_df[1].Claude # claude_df[2].Claude
    /\ Len(merged_df) = 2
    /\ flagged # <<>>

(***************************************************************************)
(* C19.  The same normalization (the text before the first "_") decides    *)
(* the alignment on both sides: a manual row is in the aligned table iff   *)
(* its identifier, so normalized, is the identifier of an automated        *)
(* record, and an automated record is in the aligned table iff its         *)
(* identifier is the normalized identifier of a manual row; the comparison *)
(* is exact.                                                               *)
(***************************************************************************)
C19_SameNormalizationBothSides ==
    LET Normalized(i) == SplitFirst(manual_df[i].ParticipantID)
    IN  MergeReturned =>
            /\ \A i \in 1..Len(manual_df) :
                  manual_df[i].ParticipantID \in IdSet(merged_df)
                      <=> Normalized(i) \in IdSet(claude_df)
            /\ \A j \in 1..Len(claude_df) :
                  claude_df[j].ParticipantID \in IdSet(merged_df)
                      <=> \E i \in 1..Len(manual_df) :
                              Normalized(i) = claude_df[j].ParticipantID

\* The calls of one run for one transcript.
CallsOf(r, id) == {c \in api_calls : c.run = r /\ c.participant_id = id}

\* Every file is older than the first run and its transcript was never sent,
\* or it holds the data of a successful call of the run that wrote it; every
\* successful call has its file, and no call is later than the file.
FilesFromCalls ==
    /\ \A id \in DOMAIN output_dir :
          \/ output_dir[id] = OlderFile /\ \A r \in 1..run : CallsOf(r, id) = {}
          \/ \E c \in CallsOf(output_dir[id].written_in, id) :
                /\ c.outcome.ok
                /\ c.outcome.input_tokens = output_dir[id].input_tokens
                /\ c.outcome.output_tokens = output_dir[id].output_tokens
    /\ \A c \in api_calls :
          /\ c.outcome.ok =>
                /\ c.participant_id \in DOMAIN output_dir
                /\ output_dir[c.participant_id].written_in = c.run
          /\ c.participant_id \in DOMAIN output_dir =>
                c.run <= output_dir[c.participant_id].written_in

\* A run that finished its loop called the model for every transcript that
\* is left without a file.
FailedAreRetried ==
    coding_pc = "finished" =>
        \A id \in Range(transcripts) :
            \/ id \in DOMAIN output_dir
            \/ \E c \in CallsOf(run, id) : ~c.outcome.ok

\* A step keeps every existing file as it is and calls the model only for
\* transcripts without a file.
StepKeepsFiles ==
    /\ \A id \in DOMAIN output_dir :
          id \in DOMAIN output_dir' /\ output_dir'[id] = output_dir[id]
    /\ \A c \in api_calls' \ api_calls :
          c.participant_id \notin DOMAIN output_dir
    /\ Range(transcripts) \subseteq DOMAIN output_dir =>
          api_calls' = api_calls /\ output_dir' = output_dir

\* How often x stands in the list s.
Count(s, x) == Cardinality({k \in 1..Len(s) : s[k] = x})

(***************************************************************************)
(* C20.  In the coding script, over any number of runs: a transcript whose *)
(* output file exists is not sent to the model and no step changes or      *)
(* removes an existing output file; a file written by a run comes from a   *)
(* successful call of that run for that transcript, and every successful   *)
(* call has its file; a run that finishes its loop has called the model    *)
(* for every transcript left without a file, so a failed transcript is     *)
(* tried again by the next such run; and once every transcript has its     *)
(* file, no step calls the model or changes a file.                        *)
(***************************************************************************)
C20_CodedOnceAndOnlyOnSuccess ==
    /\ [](FilesFromCalls /\ FailedAreRetried)
    /\ [][StepKeepsFiles]_vars

\* Two runs over two transcripts: one had a file before the first run and was
\* skipped both times, the other failed in the first run and was coded in the
\* second.
C20_Witness ==
    /\ run = 2
    /\ coding_pc = "finished"
    /\ transcripts = <<"P01", "P02">>
    /\ DOMAIN output_dir = {"P01", "P02"}
    /\ output_dir["P01"] = OlderFile
    /\ skipped = <<"P01">>
    /\ \E c \in api_calls :
          c.run = 1 /\ c.participant_id = "P02" /\ ~c.outcome.ok
    /\ \E c \in api_calls :
          c.run = 2 /\ c.participant_id = "P02" /\ c.outcome.ok
    /\ output_dir["P02"].written_in = 2
    /\ coding_results = <<"P02">>

(***************************************************************************)
(* C21.  In the coding script, every transcript the loop has passed is in  *)
(* exactly one of the lists results, skipped and errors, so the summary    *)
(* saved after the loop has successfully_coded + already_coded + errors =  *)
(* total_transcripts; the token totals are 0 when the loop starts and are  *)
(* always the sums of the token counts of the successful calls of this     *)
(* run, whatever earlier runs, skipped and failed transcripts used.        *)
(***************************************************************************)
C21_OutcomesPartitionAndTokensPerRun ==
    LET passed == SubSeq(transcripts, 1, loop_i - 1)
        coded == {c \in api_calls : c.run = run /\ c.outcome.ok}
        tokens_in == [c \in coded |-> c.outcome.input_tokens]
        tokens_out == [c \in coded |-> c.outcome.output_tokens]
    IN  /\ coding_pc \in {"loop", "finished"} =>
              /\ \A id \in ParticipantIds :
                    Count(passed, id)
                        = Count(coding_results, id) + Count(skipped, id)
                            + Count(errors, id)
              /\ Cardinality(coded) = Len(coding_results)
              /\ total_input_tokens = SetSum(coded, tokens_in)
              /\ total_output_tokens = SetSum(coded, tokens_out)
        /\ (coding_pc = "loop" /\ loop_i = 1) =>
              total_input_tokens = 0 /\ total_output_tokens = 0
        /\ coding_pc = "finished" =>
              /\ summary.saved_in = run
              /\ summary.total_transcripts = Len(transcripts)
              /\ summary.successfully_coded + summary.already_coded
                    + summary.errors = summary.total_transcripts
              /\ summary.successfully_coded = Len(coding_results)
              /\ summary.already_coded = Len(skipped)
              /\ summary.errors = Len(errors)
              /\ summary.total_input_tokens = SetSum(coded, tokens_in)
              /\ summary.total_output_tokens = SetSum(coded, tokens_out)

\* The second run over three transcripts ends with one skipped (coded by the
\* first run, which used tokens), one failed and one coded; the totals are
\* those of the one call that succeeded in the second run.
C21_Witness ==
    /\ run = 2
    /\ coding_pc = "finished"
    /\ Len(transcripts) = 3
    /\ summary.successfully_coded = 1
    /\ summary.already_coded = 1
    /\ summary.errors = 1
    /\ \E c \in api_calls : c.run = 1 /\ c.outcome.ok /\ c.outcome.input_tokens = 2
    /\ summary.total_input_tokens = 1
    /\ summary.total_output_tokens = 2

(***************************************************************************)
(* C22.  generate_summary_report writes a conclusion for every results     *)
(* dict, and when the dict is empty or the correlation of any entry is     *)
(* undefined the conclusion is "Poor", the one written for a numeric       *)
(* average correlation below 0.70, whatever the other entries hold.        *)
(***************************************************************************)
C22_EmptyOrUndefinedConcludesPoor ==
    pc = "done" =>
        /\ report.conclusion \in {"Excellent", "Good to moderate", "Poor"}
        /\ DOMAIN results = {} => report.conclusion = "Poor"
        /\ (\E m \in DOMAIN results : IsNaN(results[m].correlation)) =>
              report.conclusion = "Poor"

\* Two entries with correlation 1 and mean absolute error 0 and a third with
\* an undefined correlation: the report says "Poor".
C22_Witness ==
    /\ pc = "done"
    /\ DOMAIN results = Metrics
    /\ IsNaN(results["Fluency"].correlation)
    /\ results["Flexibility"].correlation = Num(100)
    /\ results["Elaboration"].correlation = Num(100)
    /\ \A m \in Metrics : results[m].abs_error_sum = 0
    /\ report.conclusion = "Poor"

====
